---- MODULE Spec2Model ----
(***************************************************************************)
(* A model of pybalboa's command line entry point (pybalboa/__main__.py):  *)
(* the orchestrator (__main__, run_discovery, connect_and_listen), the     *)
(* sweep driver (test_controls) and the two command verifiers              *)
(* (adjust_temperature, adjust_control).                                   *)
(*                                                                         *)
(* The program is one asyncio task.  The spa's attributes (control.state,  *)
(* spa.target_temperature) are written by the client library's listener,   *)
(* which can only run while the task is suspended in an await: the set     *)
(* request and asyncio.sleep.  The two update actions are therefore        *)
(* enabled at those places only, and what the task does between two        *)
(* awaits is one step.                                                     *)
(*                                                                         *)
(* Time is counted in poll intervals (asyncio.sleep(0.1)); the deadline of *)
(* asyncio.wait_for, `wait` seconds, is Timeout of them.                   *)
(*                                                                         *)
(* The variables of a frame that has returned are reset by the next step   *)
(* of its caller: the values a verifier left are visible in the state in   *)
(* which it returned, and nowhere later.                                   *)
(***************************************************************************)
EXTENDS Integers, Sequences, FiniteSets

\* ------------------------------------------------------------- bounds
\* The most spas discovery returns.
MaxSpas == 3
\* The most controls in spa.controls.
MaxControls == 2
\* The most options of a control; a control's state ranges over 0..MaxOptions-1,
\* so a control with fewer options can be in a state that is not an option.
MaxOptions == 3
\* The number of temperature steps from the spa's minimum to its maximum.
TempLevels == 3

\* ---------------------------------------------------- program constants
\* wait = 10 (seconds)
Wait == 10
\* asyncio.sleep(0.1): polls per second
PollsPerSecond == 10
\* The deadline of asyncio.wait_for, in poll intervals.
Timeout == Wait * PollsPerSecond

\* ------------------------------------------------------------- values
\* spa.target_temperature is None: no temperature is known.
NoTemperature == 0
Temps == 1..TempLevels
temperature_minimum == CHOOSE t \in Temps : \A u \in Temps : t <= u
temperature_maximum == CHOOSE t \in Temps : \A u \in Temps : t >= u
States == 0..(MaxOptions - 1)
\* control.options of a control with n options, in list order.
Options(n) == [i \in 1..n |-> i - 1]
OptionSet(n) == {Options(n)[i] : i \in 1..n}

VARIABLES
    \* __main__ and run_discovery
    hostGiven,      \* args.host is set
    mainpc,         \* "start", "discover", "loop", "exit", "exited", "crashed"
    exitCode,       \* the process's exit status, -1 while it runs
    nSpas,          \* len(spas)
    devIdx,         \* position of `for spa in spas`, 1-based
    lastResult,     \* how connect_and_listen ended for the spa before, while
                    \* run_discovery is between two spas or after the last
    faulted,        \* a spa so far ended by a connection fault or with its
                    \* configuration not loaded
    noSpaReported,  \* "No spa provided" was printed
    \* connect_and_listen
    cpc,            \* "idle", "try", "config", "sweep", "with_exit"
    pending,        \* how the `async with` body was left
    open,           \* the spas whose connection is open
    cfg,            \* what async_configuration_loaded returned for this spa
    \* test_controls
    tpc,            \* "idle", "start", "temp1", "temp2", "controls", "options",
                    \* "ctl_end", "returned", "aborted"
    targetTemp,     \* spa.target_temperature
    savedTemp,      \* the local target_temperature
    tempLog,        \* the temperatures set_temperature was called with
    firstOutcome,   \* how the first adjust_temperature ended
    nCtl,           \* len(spa.controls)
    ctlIdx,         \* position of `for control in spa.controls`
    nOpt,           \* len(control.options)
    ctlState,       \* control.state
    orig,           \* the local `state`
    optIdx,         \* position of `for option in control.options`
    attempts,       \* adjust_control calls of this control's sweep, by target
    liveHit,        \* options other than `state` that were the live state when
                    \* the loop reached them
    allOk,          \* every request of this control's sweep was confirmed
    stuck,          \* a request of the option loop timed out with the control
                    \* in the state the sweep started in
    \* adjust_temperature / adjust_control
    apc,            \* "idle", "set", "sleep"
    kind,           \* "temp" or "ctl"
    target,         \* the value being set
    ticks,          \* poll intervals elapsed since wait_for started
    polls,          \* evaluations of the poll loop's condition in this call
    reads,          \* reads of the observed attribute in this call
    outcome,        \* how the call ended, "none" while it runs
    accepted,       \* what the set request of this call returned
    noop,           \* the value printed at the start of this call (line 155,
                    \* line 175) was the target already
    setIssued       \* a set request was sent to this spa

mainVars == <<hostGiven, mainpc, exitCode, nSpas, devIdx, lastResult, faulted, noSpaReported>>
connVars == <<cpc, pending, open, cfg>>
tempVars == <<targetTemp, savedTemp, tempLog, firstOutcome>>
loopVars == <<nCtl, ctlIdx>>
ctlVars == <<nOpt, ctlState, orig, optIdx, attempts, liveHit, allOk, stuck>>
adjVars == <<apc, kind, target, ticks, polls, reads, outcome, accepted, noop>>
vars == <<mainVars, connVars, tpc, tempVars, loopVars, ctlVars, adjVars, setIssued>>

NoAttempts == [o \in States |-> 0]

\* The frame of a verifier that is not running.
VerifierIdle ==
    /\ apc' = "idle"
    /\ kind' = "none"
    /\ target' = 0
    /\ ticks' = 0
    /\ polls' = 0
    /\ reads' = 0
    /\ outcome' = "none"
    /\ accepted' = "unknown"
    /\ noop' = FALSE

\* The locals of the loop body of test_controls before a control is taken.
ControlIdle ==
    /\ nOpt' = 0
    /\ ctlState' = 0
    /\ orig' = 0
    /\ optIdx' = 1
    /\ attempts' = NoAttempts
    /\ liveHit' = {}
    /\ allOk' = TRUE
    /\ stuck' = FALSE

\* The temperature is not read after the second adjust_temperature.
TemperatureIdle ==
    /\ targetTemp' = NoTemperature
    /\ savedTemp' = NoTemperature
    /\ tempLog' = <<>>
    /\ firstOutcome' = "none"

Init ==
    /\ hostGiven \in BOOLEAN
    /\ mainpc = "start"
    /\ exitCode = -1
    /\ nSpas = 0
    /\ devIdx = 1
    /\ lastResult = "none"
    /\ faulted = FALSE
    /\ noSpaReported = FALSE
    /\ cpc = "idle"
    /\ pending = "none"
    /\ open = {}
    /\ cfg = "unknown"
    /\ tpc = "idle"
    /\ targetTemp = NoTemperature
    /\ savedTemp = NoTemperature
    /\ tempLog = <<>>
    /\ firstOutcome = "none"
    /\ nCtl = 0
    /\ ctlIdx = 1
    /\ nOpt = 0
    /\ ctlState = 0
    /\ orig = 0
    /\ optIdx = 1
    /\ attempts = NoAttempts
    /\ liveHit = {}
    /\ allOk = TRUE
    /\ stuck = FALSE
    /\ apc = "idle"
    /\ kind = "none"
    /\ target = 0
    /\ ticks = 0
    /\ polls = 0
    /\ reads = 0
    /\ outcome = "none"
    /\ accepted = "unknown"
    /\ noop = FALSE
    /\ setIssued = FALSE

\* ============================================================ __main__

\* if args.host: asyncio.run(connect_and_listen(args.host))
MainHost ==
    /\ mainpc = "start"
    /\ hostGiven
    /\ mainpc' = "loop"
    /\ nSpas' = 1
    /\ cpc' = "try"
    /\ UNCHANGED <<hostGiven, exitCode, devIdx, lastResult, faulted, noSpaReported>>
    /\ UNCHANGED <<pending, open, cfg, tpc, tempVars, loopVars, ctlVars, adjVars, setIssued>>

\* else: asyncio.run(run_discovery(first_spa=not args.all))
MainDiscovery ==
    /\ mainpc = "start"
    /\ ~hostGiven
    /\ mainpc' = "discover"
    /\ UNCHANGED <<hostGiven, exitCode, nSpas, devIdx, lastResult, faulted, noSpaReported>>
    /\ UNCHANGED <<connVars, tpc, tempVars, loopVars, ctlVars, adjVars, setIssued>>

\* spas = await SpaClient.discover(first_spa)
\* The call returns a list of zero or more spas.  (An exception raised by it would
\* leave run_discovery, which has no handler; discover is not part of this file
\* and no failure of it is modelled.)
Discover ==
    /\ mainpc = "discover"
    /\ \E n \in 0..MaxSpas : nSpas' = n
    /\ mainpc' = "loop"
    /\ UNCHANGED <<hostGiven, exitCode, devIdx, lastResult, faulted, noSpaReported>>
    /\ UNCHANGED <<connVars, tpc, tempVars, loopVars, ctlVars, adjVars, setIssued>>

\* for spa in spas: await connect_and_listen(spa=spa)
NextSpa ==
    /\ mainpc = "loop"
    /\ ~hostGiven
    /\ cpc = "idle"
    /\ devIdx <= nSpas
    /\ cpc' = "try"
    /\ lastResult' = "none"
    /\ UNCHANGED <<hostGiven, mainpc, exitCode, nSpas, devIdx, faulted, noSpaReported>>
    /\ UNCHANGED <<pending, open, cfg, tpc, tempVars, loopVars, ctlVars, adjVars, setIssued>>

\* The loop over spas is exhausted (or connect_and_listen(args.host) returned).
SpasDone ==
    /\ mainpc = "loop"
    /\ cpc = "idle"
    /\ devIdx > nSpas
    /\ mainpc' = "exit"
    /\ UNCHANGED <<hostGiven, exitCode, nSpas, devIdx, lastResult, faulted, noSpaReported>>
    /\ UNCHANGED <<connVars, tpc, tempVars, loopVars, ctlVars, adjVars, setIssued>>

\* sys.exit(0)
SysExit ==
    /\ mainpc = "exit"
    /\ mainpc' = "exited"
    /\ exitCode' = 0
    /\ UNCHANGED <<hostGiven, nSpas, devIdx, lastResult, faulted, noSpaReported>>
    /\ UNCHANGED <<connVars, tpc, tempVars, loopVars, ctlVars, adjVars, setIssued>>

\* ================================================== connect_and_listen

\* The ways connect_and_listen ends that the spec calls ConnectivityFault and
\* ConfigurationNotLoaded.
Faults == {"connect_fault", "sweep_fault", "not_loaded"}

\* The exception a way of leaving connect_and_listen's try block carries.
Raised(cause) ==
    CASE cause \in {"connect_fault", "sweep_fault"} -> "SpaConnectionError"
      [] cause = "assertion" -> "AssertionError"
      [] OTHER -> "none"

\* except SpaConnectionError:
Caught(exception) == exception = "SpaConnectionError"

\* An exception that connect_and_listen does not catch leaves run_discovery and
\* asyncio.run as well.
Uncaught(cause) == Raised(cause) # "none" /\ ~Caught(Raised(cause))

\* connect_and_listen ends for the current spa: the way it ended is recorded, its
\* frame and those below it are gone, and control is back in the caller's loop.
Finish(cause) ==
    /\ cpc' = "idle"
    /\ pending' = "none"
    /\ cfg' = "unknown"
    /\ tpc' = "idle"
    /\ setIssued' = FALSE
    /\ nCtl' = 0
    /\ ctlIdx' = 1
    /\ ControlIdle
    /\ TemperatureIdle
    /\ VerifierIdle
    /\ lastResult' = cause
    /\ faulted' = (faulted \/ cause \in Faults)
    /\ devIdx' = devIdx + 1
    /\ IF Uncaught(cause)
       THEN mainpc' = "crashed" /\ exitCode' = 1
       ELSE UNCHANGED <<mainpc, exitCode>>
    /\ UNCHANGED <<hostGiven, nSpas>>

\* SpaClient.__aexit__: the connection of the current spa is closed.
Disconnect == open' = open \ {devIdx}

\* if host: spa = SpaClient(host); if not spa: print("No spa provided"); return
\* async with spa: the connection is established.
Connect ==
    /\ cpc = "try"
    /\ IF hostGiven \/ devIdx <= nSpas
       THEN /\ open' = open \cup {devIdx}
            /\ cpc' = "config"
            /\ UNCHANGED <<mainVars, pending, cfg, tpc, tempVars, loopVars, ctlVars,
                           adjVars, setIssued>>
       ELSE /\ noSpaReported' = TRUE
            /\ Finish("no_spa")
            /\ UNCHANGED open

\* async with spa: connecting raises SpaConnectionError, handled at line 111.
ConnectFault ==
    /\ cpc = "try"
    /\ hostGiven \/ devIdx <= nSpas
    /\ Finish("connect_fault")
    /\ UNCHANGED <<noSpaReported, open>>

\* The return after the report is missing.
ConfigNotLoadedGoesOn ==
    /\ cpc = "config"
    /\ cfg' = "not_loaded"
    /\ cpc' = "sweep"
    /\ tpc' = "start"
    /\ UNCHANGED <<mainVars, pending, open, tempVars, loopVars, ctlVars, adjVars, setIssued>>

\* if not await spa.async_configuration_loaded(): print(...); return
ConfigNotLoaded ==
    /\ cpc = "config"
    /\ cfg' = "not_loaded"
    /\ cpc' = "with_exit"
    /\ pending' = "not_loaded"
    /\ UNCHANGED <<mainVars, open, tpc, tempVars, loopVars, ctlVars, adjVars, setIssued>>

\* The configuration is loaded: the report is printed and test_controls is called.
ConfigLoaded ==
    /\ cpc = "config"
    /\ cfg' = "loaded"
    /\ cpc' = "sweep"
    /\ tpc' = "start"
    /\ UNCHANGED <<mainVars, pending, open, tempVars, loopVars, ctlVars, adjVars, setIssued>>

\* The connection is closed at the end of the block only, not on a return or an
\* exception.
ExitWithoutRelease ==
    /\ cpc = "with_exit"
    /\ IF pending = "done" THEN Disconnect ELSE UNCHANGED open
    /\ Finish(pending)
    /\ UNCHANGED noSpaReported

\* The connection is left open when the block is left.
ExitLeavesOpen ==
    /\ cpc = "with_exit"
    /\ UNCHANGED open
    /\ Finish(pending)
    /\ UNCHANGED noSpaReported

\* The `async with` block is left, by return, by its end or by an exception: the
\* connection is closed, then the handler or the else clause runs.
AsyncWithExit ==
    /\ cpc = "with_exit"
    /\ Disconnect
    /\ Finish(pending)
    /\ UNCHANGED noSpaReported

\* =========================================================== verifiers

\* What the poll loop compares with the target.
Observed == IF kind = "temp" THEN targetTemp ELSE ctlState

\* adjust_temperature(spa, temperature) up to its first await: the current target is
\* printed and set_temperature is called.
CallAdjustTemperature(temperature) ==
    /\ apc' = "set"
    /\ kind' = "temp"
    /\ target' = temperature
    /\ ticks' = 0
    /\ polls' = 0
    /\ reads' = 1
    /\ outcome' = "none"
    /\ accepted' = "unknown"
    /\ noop' = (targetTemp' = temperature)
    /\ setIssued' = TRUE
    /\ tempLog' = Append(tempLog, temperature)

\* adjust_control(control, state) up to its first await: the current state is
\* printed and set_state is called.
CallAdjustControl(state) ==
    /\ apc' = "set"
    /\ kind' = "ctl"
    /\ target' = state
    /\ ticks' = 0
    /\ polls' = 0
    /\ reads' = 1
    /\ outcome' = "none"
    /\ accepted' = "unknown"
    /\ noop' = (ctlState = state)
    /\ setIssued' = TRUE
    /\ attempts' = [attempts EXCEPT ![state] = @ + 1]

\* The loop sleeps one interval before it looks at the value for the first time.
PollLoopSleepsFirst ==
    /\ polls' = polls + 1
    /\ IF Observed = target /\ polls > 0
       THEN /\ apc' = "idle"
            /\ outcome' = "Confirmed"
            /\ reads' = reads + 2
       ELSE /\ apc' = "sleep"
            /\ outcome' = outcome
            /\ reads' = reads + 1

\* while observed != target: await asyncio.sleep(0.1)
\* One evaluation of the condition: the loop ends, wait_for returns and the new
\* value is printed, or the loop sleeps.
PollLoop ==
    /\ polls' = polls + 1
    /\ IF Observed = target
       THEN /\ apc' = "idle"
            /\ outcome' = "Confirmed"
            /\ reads' = reads + 2
       ELSE /\ apc' = "sleep"
            /\ outcome' = outcome
            /\ reads' = reads + 1

\* await spa.set_temperature(temperature): the result is not looked at, and the
\* poll loop starts under wait_for.
SetTemperatureReturn ==
    /\ apc = "set"
    /\ kind = "temp"
    /\ \E a \in {"yes", "no"} : accepted' = a
    /\ PollLoop
    /\ UNCHANGED <<kind, target, ticks, noop, setIssued>>
    /\ UNCHANGED <<mainVars, connVars, tpc, tempVars, loopVars, ctlVars>>

\* A request that is not accepted is raised as a connection error.
SetStateRejectedRaises ==
    /\ apc = "set"
    /\ kind = "ctl"
    /\ accepted' = "no"
    /\ apc' = "idle"
    /\ outcome' = "NotAccepted"
    /\ tpc' = "aborted"
    /\ cpc' = "with_exit"
    /\ pending' = "sweep_fault"
    /\ allOk' = FALSE
    /\ UNCHANGED <<kind, target, ticks, polls, reads, noop, setIssued>>
    /\ UNCHANGED <<nOpt, ctlState, orig, optIdx, attempts, liveHit, stuck>>
    /\ UNCHANGED <<mainVars, open, cfg, tempVars, loopVars>>

\* The result of set_state is not looked at, as in adjust_temperature.
SetStateRejectedPolls ==
    /\ apc = "set"
    /\ kind = "ctl"
    /\ accepted' = "no"
    /\ PollLoop
    /\ UNCHANGED <<kind, target, ticks, noop, setIssued>>
    /\ UNCHANGED <<mainVars, connVars, tpc, tempVars, loopVars, ctlVars>>

\* if not await control.set_state(state): return
SetStateRejected ==
    /\ apc = "set"
    /\ kind = "ctl"
    /\ accepted' = "no"
    /\ apc' = "idle"
    /\ outcome' = "NotAccepted"
    /\ allOk' = FALSE
    /\ UNCHANGED <<kind, target, ticks, polls, reads, noop, setIssued>>
    /\ UNCHANGED <<nOpt, ctlState, orig, optIdx, attempts, liveHit, stuck>>
    /\ UNCHANGED <<mainVars, connVars, tpc, tempVars, loopVars>>

\* control.set_state returned true: the poll loop starts under wait_for.
SetStateAccepted ==
    /\ apc = "set"
    /\ kind = "ctl"
    /\ accepted' = "yes"
    /\ PollLoop
    /\ UNCHANGED <<kind, target, ticks, noop, setIssued>>
    /\ UNCHANGED <<mainVars, connVars, tpc, tempVars, loopVars, ctlVars>>

\* The set request raises SpaConnectionError: it leaves the verifier, test_controls
\* and the `async with` block.
SetFault ==
    /\ apc = "set"
    /\ apc' = "idle"
    /\ outcome' = "Fault"
    /\ tpc' = "aborted"
    /\ cpc' = "with_exit"
    /\ pending' = "sweep_fault"
    /\ allOk' = FALSE
    /\ UNCHANGED <<kind, target, ticks, polls, reads, accepted, noop, setIssued>>
    /\ UNCHANGED <<nOpt, ctlState, orig, optIdx, attempts, liveHit, stuck>>
    /\ UNCHANGED <<mainVars, open, cfg, tempVars, loopVars>>

\* asyncio.sleep(0.1) ends, before the deadline or at the very moment of it, and
\* the condition of the loop is evaluated again.
Wake ==
    /\ apc = "sleep"
    /\ ticks < Timeout
    /\ ticks' = ticks + 1
    /\ PollLoop
    /\ UNCHANGED <<kind, target, accepted, noop, setIssued>>
    /\ UNCHANGED <<mainVars, connVars, tpc, tempVars, loopVars, ctlVars>>

\* The deadline counted in polls instead of seconds.
DeadlineInPolls == ticks + 1 >= Wait

\* await asyncio.wait_for(..., wait): the deadline falls within the sleep that is
\* under way, or has come.
DeadlineReached == ticks + 1 >= Timeout

\* On a timeout the request is sent again and the wait starts over.
TimedOutResends ==
    /\ apc = "sleep"
    /\ DeadlineReached
    /\ apc' = "set"
    /\ ticks' = 0
    /\ polls' = 0
    /\ reads' = reads + 1
    /\ UNCHANGED <<kind, target, outcome, accepted, noop, setIssued>>
    /\ UNCHANGED <<mainVars, connVars, tpc, tempVars, loopVars, ctlVars>>

\* except asyncio.TimeoutError: the sleep is cut short at the deadline, the last
\* value is printed and the verifier returns.
TimedOut ==
    /\ apc = "sleep"
    /\ DeadlineReached
    /\ ticks' = IF ticks < Timeout THEN ticks + 1 ELSE ticks
    /\ reads' = reads + 1
    /\ apc' = "idle"
    /\ outcome' = "TimedOut"
    /\ allOk' = IF kind = "ctl" THEN FALSE ELSE allOk
    /\ stuck' = IF kind = "ctl" /\ target # orig /\ ctlState = orig THEN TRUE ELSE stuck
    /\ UNCHANGED <<kind, target, polls, accepted, noop, setIssued>>
    /\ UNCHANGED <<nOpt, ctlState, orig, optIdx, attempts, liveHit>>
    /\ UNCHANGED <<mainVars, connVars, tpc, tempVars, loopVars>>

\* A status update of the spa changes the state of the control under test.  The
\* listener runs only while the task is suspended.
ControlUpdate ==
    /\ apc \in {"set", "sleep"}
    /\ kind = "ctl"
    /\ \E s \in States \ {ctlState} : ctlState' = s
    /\ UNCHANGED <<nOpt, orig, optIdx, attempts, liveHit, allOk, stuck>>
    /\ UNCHANGED <<mainVars, connVars, tpc, tempVars, loopVars, adjVars, setIssued>>

\* A status update of the spa changes its target temperature.
TemperatureUpdate ==
    /\ apc \in {"set", "sleep"}
    /\ kind = "temp"
    /\ \E t \in Temps \ {targetTemp} : targetTemp' = t
    /\ UNCHANGED <<savedTemp, tempLog, firstOutcome>>
    /\ UNCHANGED <<mainVars, connVars, tpc, loopVars, ctlVars, adjVars, setIssued>>

\* ======================================================= test_controls

\* assert spa.target_temperature is not None (and the two bounds): one of them is
\* None and AssertionError leaves test_controls and the `async with` block.
TestControlsAssertFails ==
    /\ cpc = "sweep"
    /\ tpc = "start"
    /\ \E t \in Temps \cup {NoTemperature}, boundsKnown \in BOOLEAN :
          t = NoTemperature \/ ~boundsKnown
    /\ tpc' = "aborted"
    /\ cpc' = "with_exit"
    /\ pending' = "assertion"
    /\ UNCHANGED <<mainVars, open, cfg, tempVars, loopVars, ctlVars, adjVars, setIssued>>

\* The maximum is set first whatever the target is.
FirstTemperatureMaximum(t) == temperature_maximum

\* The temperature set first: the maximum, or the minimum when the target is the
\* maximum already.
FirstTemperature(t) ==
    IF t # temperature_maximum THEN temperature_maximum ELSE temperature_minimum

\* target_temperature = spa.target_temperature
\* await adjust_temperature(spa, maximum or minimum)
TestControlsStart ==
    /\ cpc = "sweep"
    /\ tpc = "start"
    /\ \E t \in Temps :
          /\ targetTemp' = t
          /\ savedTemp' = t
          /\ CallAdjustTemperature(FirstTemperature(t))
    /\ firstOutcome' = "none"
    /\ tpc' = "temp1"
    /\ UNCHANGED <<mainVars, connVars, loopVars, ctlVars>>

\* The first adjust_temperature is started and not awaited.
TemperatureBackNotAwaited ==
    /\ tpc = "temp1"
    /\ UNCHANGED <<targetTemp, savedTemp>>
    /\ firstOutcome' = outcome
    /\ CallAdjustTemperature(savedTemp)
    /\ tpc' = "temp2"
    /\ UNCHANGED <<mainVars, connVars, loopVars, ctlVars>>

\* await adjust_temperature(spa, target_temperature)
TemperatureBack ==
    /\ tpc = "temp1"
    /\ apc = "idle"
    /\ UNCHANGED <<targetTemp, savedTemp>>
    /\ firstOutcome' = outcome
    /\ CallAdjustTemperature(savedTemp)
    /\ tpc' = "temp2"
    /\ UNCHANGED <<mainVars, connVars, loopVars, ctlVars>>

\* The second adjust_temperature returned: the loop over spa.controls starts.
ControlsStart ==
    /\ tpc = "temp2"
    /\ apc = "idle"
    /\ \E n \in 0..MaxControls : nCtl' = n
    /\ ctlIdx' = 1
    /\ tpc' = "controls"
    /\ VerifierIdle
    /\ TemperatureIdle
    /\ UNCHANGED <<mainVars, connVars, ctlVars, setIssued>>

\* for control in spa.controls: state = control.state
ForControl ==
    /\ tpc = "controls"
    /\ ctlIdx <= nCtl
    /\ \E n \in 1..MaxOptions, s \in States :
          /\ nOpt' = n
          /\ ctlState' = s
          /\ orig' = s
    /\ optIdx' = 1
    /\ attempts' = NoAttempts
    /\ liveHit' = {}
    /\ allOk' = TRUE
    /\ stuck' = FALSE
    /\ tpc' = "options"
    /\ UNCHANGED <<mainVars, connVars, tempVars, loopVars, adjVars, setIssued>>

\* The loop over spa.controls is exhausted: test_controls returns and the
\* `async with` body ends.
ControlsDone ==
    /\ tpc = "controls"
    /\ ctlIdx > nCtl
    /\ tpc' = "returned"
    /\ cpc' = "with_exit"
    /\ pending' = "done"
    /\ UNCHANGED <<mainVars, open, cfg, tempVars, loopVars, ctlVars, adjVars, setIssued>>

\* The option is compared with the captured state only.
AdjustUnlessOriginal(option) == option # orig

\* Every option is set, whatever the state of the control.
AdjustAlways(option) == TRUE

\* The option is compared with the live state only.
AdjustUnlessLive(option) == option # ctlState

\* if option not in (state, control.state)
ShouldAdjust(option) == option \notin {orig, ctlState}

\* The options that were the live state, and not `state`, when the loop got to them.
LiveHit(option) ==
    IF option = ctlState /\ option # orig THEN liveHit \cup {option} ELSE liveHit

\* for option in control.options: ... await adjust_control(control, option)
OptionAdjust ==
    /\ tpc = "options"
    /\ apc = "idle"
    /\ optIdx <= nOpt
    /\ ShouldAdjust(Options(nOpt)[optIdx])
    /\ CallAdjustControl(Options(nOpt)[optIdx])
    /\ liveHit' = LiveHit(Options(nOpt)[optIdx])
    /\ optIdx' = optIdx + 1
    /\ UNCHANGED <<nOpt, ctlState, orig, allOk, stuck>>
    /\ UNCHANGED <<mainVars, connVars, tpc, tempVars, loopVars>>

\* for option in control.options: the option is the captured or the live state.
OptionSkip ==
    /\ tpc = "options"
    /\ apc = "idle"
    /\ optIdx <= nOpt
    /\ ~ShouldAdjust(Options(nOpt)[optIdx])
    /\ liveHit' = LiveHit(Options(nOpt)[optIdx])
    /\ optIdx' = optIdx + 1
    /\ VerifierIdle
    /\ UNCHANGED <<nOpt, ctlState, orig, attempts, allOk, stuck>>
    /\ UNCHANGED <<mainVars, connVars, tpc, tempVars, loopVars, setIssued>>

\* The restore test inverted.
RestoreWhenUnchanged == ctlState = orig

\* The restore request is sent whatever the state of the control.
RestoreAlways == TRUE

\* if control.state != state
ShouldRestore == ctlState # orig

\* if control.state != state: await adjust_control(control, state)
Restore ==
    /\ tpc = "options"
    /\ apc = "idle"
    /\ optIdx > nOpt
    /\ ShouldRestore
    /\ CallAdjustControl(orig)
    /\ tpc' = "ctl_end"
    /\ UNCHANGED <<nOpt, ctlState, orig, optIdx, liveHit, allOk, stuck>>
    /\ UNCHANGED <<mainVars, connVars, tempVars, loopVars>>

\* The options are exhausted and the control is in its original state.
NoRestore ==
    /\ tpc = "options"
    /\ apc = "idle"
    /\ optIdx > nOpt
    /\ ~ShouldRestore
    /\ tpc' = "ctl_end"
    /\ UNCHANGED <<kind, target, ticks, polls, reads, outcome, accepted, noop>>
    /\ UNCHANGED apc
    /\ UNCHANGED <<mainVars, connVars, tempVars, loopVars, ctlVars, setIssued>>

\* print(): the sweep of this control is finished, the next control follows.
ControlEnd ==
    /\ tpc = "ctl_end"
    /\ apc = "idle"
    /\ ctlIdx' = ctlIdx + 1
    /\ tpc' = "controls"
    /\ VerifierIdle
    /\ ControlIdle
    /\ UNCHANGED <<mainVars, connVars, tempVars, nCtl, setIssued>>

\* ====================================================== specification

Next ==
    \/ MainHost
    \/ MainDiscovery
    \/ Discover
    \/ NextSpa
    \/ SpasDone
    \/ SysExit
    \/ Connect
    \/ ConnectFault
    \/ ConfigNotLoaded
    \/ ConfigLoaded
    \/ AsyncWithExit
    \/ TestControlsAssertFails
    \/ TestControlsStart
    \/ TemperatureBack
    \/ ControlsStart
    \/ ForControl
    \/ ControlsDone
    \/ OptionAdjust
    \/ OptionSkip
    \/ Restore
    \/ NoRestore
    \/ ControlEnd
    \/ SetTemperatureReturn
    \/ SetStateRejected
    \/ SetStateAccepted
    \/ SetFault
    \/ Wake
    \/ TimedOut
    \/ ControlUpdate
    \/ TemperatureUpdate

Spec == Init /\ [][Next]_vars

\* The steps of the task: every step but the spa's status updates.
Program ==
    \/ MainHost
    \/ MainDiscovery
    \/ Discover
    \/ NextSpa
    \/ SpasDone
    \/ SysExit
    \/ Connect
    \/ ConnectFault
    \/ ConfigNotLoaded
    \/ ConfigLoaded
    \/ AsyncWithExit
    \/ TestControlsAssertFails
    \/ TestControlsStart
    \/ TemperatureBack
    \/ ControlsStart
    \/ ForControl
    \/ ControlsDone
    \/ OptionAdjust
    \/ OptionSkip
    \/ Restore
    \/ NoRestore
    \/ ControlEnd
    \/ SetTemperatureReturn
    \/ SetStateRejected
    \/ SetStateAccepted
    \/ SetFault
    \/ Wake
    \/ TimedOut

\* asyncio.run drives the task until it is complete: a task that can run does run,
\* every awaited call returns or raises, and the timers of asyncio.sleep and
\* asyncio.wait_for fire.  Nothing is assumed of the spa's status updates.
FairSpec == Init /\ [][Next]_vars /\ WF_vars(Program)

\* ============================================================= claims

\* The sweep of the current control is finished: the option loop and the restore
\* are over and print() of line 150 is next.
SweepFinished == tpc = "ctl_end" /\ apc = "idle"

\* The options of the current control that the loop has got to.
Reached == {Options(nOpt)[i] : i \in 1..(optIdx - 1)}

\* C1  Idempotent restore: a control that started its sweep in a state s of its
\* options, and whose every set_state request of the sweep was accepted and
\* confirmed before the deadline, is in state s when the sweep finishes.
C1_IdempotentRestore ==
    (SweepFinished /\ orig \in OptionSet(nOpt) /\ allOk) => ctlState = orig

\* Scenario A of the spec: options {Off, Low, High}, start Low; Off, High and then
\* Low were set and confirmed.
C1_ScenarioA ==
    /\ SweepFinished
    /\ nOpt = 3
    /\ orig = 1
    /\ allOk
    /\ attempts[0] = 1 /\ attempts[1] = 1 /\ attempts[2] = 1
    /\ outcome = "Confirmed"
    /\ ctlState = orig

\* C2 as stated  No skipped options: when the sweep of a control finishes, every
\* option other than the start state was the target of exactly one adjust_control
\* call, whatever the state of the control did meanwhile.
C2_NoSkippedOptions ==
    SweepFinished => \A o \in OptionSet(nOpt) \ {orig} : attempts[o] = 1

\* C2 as amended  Every option other than the start state is the target of exactly
\* one adjust_control call, made when the loop gets to it, unless control.state
\* equals the option at that moment: then it is the target of none.
C2_OneAttemptUnlessLive ==
    tpc \in {"options", "ctl_end"} =>
        \A o \in States \ {orig} :
            attempts[o] = IF o \in Reached /\ o \notin liveHit THEN 1 ELSE 0

\* A sweep that finished with an option passed over because the control was in that
\* state, and another option set.
C2_OptionPassedOver ==
    /\ SweepFinished
    /\ liveHit # {}
    /\ \E o \in OptionSet(nOpt) \ {orig} : attempts[o] = 1

\* C3  Partial-failure isolation: when adjust_control or adjust_temperature ends
\* with TimedOut or NotAccepted, test_controls is still running at the place of
\* the call, with nothing raised; the sweep of a control finishes only after the
\* loop has got to every option, and test_controls returns only after every
\* control; only an exception aborts it.
C3_FailureIsolated ==
    /\ outcome \in {"TimedOut", "NotAccepted"} =>
          /\ apc = "idle"
          /\ tpc \in {"temp1", "temp2", "options", "ctl_end"}
          /\ cpc = "sweep"
          /\ pending = "none"
          /\ mainpc = "loop"
    /\ tpc = "ctl_end" => optIdx = nOpt + 1
    /\ tpc = "returned" => ctlIdx = nCtl + 1
    /\ tpc = "aborted" => pending \in {"sweep_fault", "assertion"}

\* A set_state request is under way in a sweep in which an earlier request timed
\* out or was not accepted.
C3_RequestAfterFailure ==
    /\ tpc = "options"
    /\ apc = "set"
    /\ kind = "ctl"
    /\ ~allOk

\* C4 as stated  Not-accepted short-circuit: when set_state reports that the
\* request was not accepted, adjust_control has returned NotAccepted without
\* polling and without a single read of control.state in the call.
C4_NotAcceptedNoRead ==
    (kind = "ctl" /\ accepted = "no") =>
        /\ apc = "idle"
        /\ outcome = "NotAccepted"
        /\ polls = 0
        /\ reads = 0

\* C4 as amended  When set_state reports that the request was not accepted,
\* adjust_control has returned NotAccepted without polling or sleeping; its only
\* read of control.state is the one of line 175, made before the request.
C4_NotAcceptedNoPoll ==
    (kind = "ctl" /\ accepted = "no") =>
        /\ apc = "idle"
        /\ outcome = "NotAccepted"
        /\ polls = 0
        /\ ticks = 0
        /\ reads = 1

\* The restore request of a sweep was not accepted.
C4_RestoreRejected ==
    /\ SweepFinished
    /\ accepted = "no"
    /\ target = orig
    /\ outcome = "NotAccepted"

\* C5  Timeout monotonicity: a verifier that ends with TimedOut does so no earlier
\* than 100 poll intervals (10 s) and no later than 101 after wait_for started,
\* after at least 100 polls none of which saw the target; and no poll loop is
\* still asleep after the deadline plus one interval.
C5_TimeoutWindow ==
    /\ outcome = "TimedOut" =>
          /\ ticks >= Wait * PollsPerSecond
          /\ ticks <= Wait * PollsPerSecond + 1
          /\ polls >= Wait * PollsPerSecond
          /\ kind = "ctl" => accepted = "yes"
    /\ apc = "sleep" => ticks <= Wait * PollsPerSecond

\* adjust_control timed out at the deadline.
C5_ControlTimedOut ==
    /\ outcome = "TimedOut"
    /\ kind = "ctl"
    /\ ticks = Wait * PollsPerSecond
    /\ ctlState # target

\* C6  No sweep without a ready device: test_controls runs, and a set request is
\* sent, only for a spa whose connection is open and for which
\* async_configuration_loaded returned true.
C6_SweepOnlyWhenReady ==
    (setIssued \/ tpc # "idle" \/ apc # "idle") =>
        (devIdx \in open /\ cfg = "loaded")

\* A set_state request is under way for the second spa.
C6_RequestOnReadySpa ==
    /\ setIssued
    /\ apc = "set"
    /\ kind = "ctl"
    /\ devIdx = 2
    /\ cfg = "loaded"

\* C7  Guaranteed release: whenever connect_and_listen is not running, and when the
\* process has ended, no connection is open.
C7_ConnectionReleased ==
    (cpc = "idle" \/ mainpc \in {"exit", "exited", "crashed"}) => open = {}

\* connect_and_listen has returned after a connection fault raised in the sweep.
C7_ReleasedAfterFault ==
    /\ cpc = "idle"
    /\ lastResult = "sweep_fault"
    /\ open = {}

\* C8 as stated  Per-device fault isolation: once the harness has ended in
\* discovery mode after a connection fault or a configuration-not-loaded result on
\* one spa, every discovered spa has been connected to and processed.
C8_LaterSpasProcessed ==
    (~hostGiven /\ faulted /\ mainpc \in {"exited", "crashed"}) => devIdx > nSpas

\* C9 as stated  Nothing is fatal: no failure escapes as an uncaught fault; the
\* process does not end other than by sys.exit(0).
C9_NothingFatal == mainpc # "crashed" /\ exitCode \in {-1, 0}

\* C10 as stated  Empty discovery: when discovery returned no spa and the process
\* has ended, "No spa provided" was reported, no connection was attempted and the
\* exit code is 0.
C10_EmptyDiscoveryReported ==
    (~hostGiven /\ nSpas = 0 /\ mainpc = "exited") =>
        /\ noSpaReported
        /\ devIdx = 1
        /\ lastResult = "none"
        /\ exitCode = 0

\* C11  Conditional restore: the step that ends the option loop of a control
\* issues one adjust_control call with the original state as its target when
\* control.state differs from the original state, and none when it equals it; no
\* call targets the original state before, and none is made after.
C11_ConditionalRestore ==
    [][/\ (tpc = "options" /\ tpc' = "ctl_end") =>
            /\ attempts[orig] = 0
            /\ IF ctlState # orig
               THEN /\ attempts' = [attempts EXCEPT ![orig] = 1]
                    /\ apc' = "set"
                    /\ kind' = "ctl"
                    /\ target' = orig
               ELSE /\ attempts' = attempts
                    /\ apc' = "idle"
       /\ (tpc = "ctl_end" /\ tpc' = "ctl_end") => attempts' = attempts
      ]_vars

\* Scenario B of the spec: options {Off, Low, High}, start Low; Off timed out with
\* the control still at Low, High was set and the control is at High; the restore
\* request for Low is under way.
C11_ScenarioB ==
    /\ tpc = "ctl_end"
    /\ apc = "set"
    /\ nOpt = 3
    /\ orig = 1
    /\ stuck
    /\ attempts[0] = 1 /\ attempts[2] = 1 /\ attempts[1] = 1
    /\ ctlState = 2
    /\ target = orig

\* C12  Live skip rule: when the option loop gets to an option, adjust_control is
\* called for it if and only if the option differs from the state captured at the
\* start of the sweep and from control.state at that moment; the call targets that
\* option, so no set_state of the option loop targets the state the control is
\* in when the request is issued; and the loop makes no call in any other step.
C12_LiveSkipRule ==
    [][/\ (tpc = "options" /\ optIdx' = optIdx + 1) =>
            LET option == Options(nOpt)[optIdx] IN
                /\ (attempts' # attempts) <=> (option # orig /\ option # ctlState)
                /\ (attempts' # attempts) =>
                      /\ attempts' = [attempts EXCEPT ![option] = @ + 1]
                      /\ apc' = "set"
                      /\ target' = option
                      /\ target' # ctlState'
       /\ (tpc = "options" /\ tpc' = "options" /\ attempts' # attempts) =>
            optIdx' = optIdx + 1
      ]_vars

\* The option loop of a control with options {0, 1, 2} that started in state 2 has
\* set option 0 and then passed over option 1, the state the control was in by
\* then; option 2 is next.
C12_SetThenPassedOver ==
    /\ tpc = "options"
    /\ apc = "idle"
    /\ nOpt = 3
    /\ orig = 2
    /\ optIdx = 3
    /\ attempts[0] = 1
    /\ attempts[1] = 0
    /\ liveHit = {1}
    /\ ctlState = 1

\* C13  Numeric sweep: test_controls calls adjust_temperature twice and no more:
\* first with the maximum, or with the minimum when the captured target is the
\* maximum, then, once the first call has ended confirmed or timed out, with the
\* captured target; when both are confirmed spa.target_temperature is the captured
\* target again; no temperature call is made once the controls are swept.
C13_NumericSweep ==
    LET first == IF savedTemp = temperature_maximum
                 THEN temperature_minimum
                 ELSE temperature_maximum
    IN  /\ tpc \in {"idle", "start"} => tempLog = <<>>
        /\ tpc = "temp1" =>
              /\ tempLog = <<first>>
              /\ kind = "temp"
              /\ target = first
        /\ tpc = "temp2" =>
              /\ tempLog = <<first, savedTemp>>
              /\ kind = "temp"
              /\ target = savedTemp
              /\ firstOutcome \in {"Confirmed", "TimedOut"}
        /\ (tpc = "temp2" /\ firstOutcome = "Confirmed" /\ outcome = "Confirmed") =>
              targetTemp = savedTemp
        /\ tpc \in {"controls", "options", "ctl_end", "returned"} =>
              /\ kind # "temp"
              /\ tempLog = <<>>

\* Scenario C of the spec: the target is below the maximum; the maximum was set and
\* confirmed, then the captured target was set and confirmed.
C13_ScenarioC ==
    /\ tpc = "temp2"
    /\ apc = "idle"
    /\ savedTemp = 2
    /\ tempLog = <<temperature_maximum, 2>>
    /\ firstOutcome = "Confirmed"
    /\ outcome = "Confirmed"
    /\ targetTemp = savedTemp

\* C14 as stated  Not-accepted short-circuit for the temperature: when
\* set_temperature reports that the request was not accepted, adjust_temperature
\* has returned NotAccepted without polling spa.target_temperature or sleeping.
C14_TemperatureNotAcceptedNoPoll ==
    (kind = "temp" /\ accepted = "no") =>
        /\ apc = "idle"
        /\ outcome = "NotAccepted"
        /\ polls = 0
        /\ ticks = 0

\* C15  One set per verification and read-only polling: a call of adjust_control
\* or adjust_temperature starts from no call in progress and issues one set
\* request, before any poll; while the call runs no further request is issued for
\* any target; the poll loop never returns to the request; and a step of the poll
\* loop (a poll, or the timeout) leaves control.state and spa.target_temperature
\* as they were.
C15_OneSetPerCall ==
    [][/\ (apc' = "set" /\ apc # "set") =>
            /\ apc = "idle"
            /\ polls' = 0
            /\ ticks' = 0
            /\ \/ /\ kind' = "ctl"
                  /\ attempts' = [attempts EXCEPT ![target'] = @ + 1]
                  /\ tempLog' = tempLog
               \/ /\ kind' = "temp"
                  /\ tempLog' = Append(tempLog, target')
                  /\ attempts' = attempts
       /\ apc # "idle" =>
            /\ attempts' = attempts
            /\ tempLog' = tempLog
       /\ apc = "sleep" => apc' \in {"sleep", "idle"}
       /\ (polls' > polls \/ (outcome' = "TimedOut" /\ outcome # "TimedOut")) =>
            /\ ctlState' = ctlState
            /\ targetTemp' = targetTemp
      ]_vars

\* The first adjust_temperature call timed out after a hundred polls and has
\* returned: one set_temperature request was made.
C15_TemperatureTimedOutOnce ==
    /\ tpc = "temp1"
    /\ apc = "idle"
    /\ kind = "temp"
    /\ outcome = "TimedOut"
    /\ polls >= Timeout
    /\ tempLog = <<target>>

\* C16 as stated  Sweep termination: once the configuration of a spa is reported
\* loaded, connect_and_listen ends for that spa with the loop over its controls
\* completed, whatever the spa's state does, unless a set request failed to
\* return (it raised a connection error).
C16_SweepReachesDone ==
    (cfg = "loaded") ~> (cpc = "idle" /\ lastResult \in {"done", "sweep_fault"})

\* What holds of C16: once the configuration of a spa is reported loaded,
\* connect_and_listen ends for that spa, by returning or by an exception.
C16_SweepTerminates == (cfg = "loaded") ~> (cpc = "idle")

\* C17  Strictly sequential verification: a set request, for the temperature or
\* for a control, is issued only when no verification is in progress and the one
\* before it, if any, has returned Confirmed, NotAccepted or TimedOut; the loop
\* over the controls starts only when the second adjust_temperature has returned,
\* and a set_state request is issued only within that loop.
C17_StrictlySequential ==
    [][/\ ((\E o \in States : attempts'[o] > attempts[o])
              \/ Len(tempLog') > Len(tempLog)) =>
            /\ apc = "idle"
            /\ outcome \in {"none", "Confirmed", "NotAccepted", "TimedOut"}
            /\ apc' = "set"
       /\ (tpc # "controls" /\ tpc' = "controls" /\ tpc # "ctl_end") =>
            /\ tpc = "temp2"
            /\ apc = "idle"
            /\ Len(tempLog) = 2
            /\ outcome \in {"Confirmed", "TimedOut"}
       /\ (\E o \in States : attempts'[o] > attempts[o]) =>
            /\ tpc = "options"
            /\ kind # "temp"
      ]_vars

\* The second set_state request of a control's sweep is waiting for the state to
\* change; the first one has returned.
C17_SecondRequestPolling ==
    /\ tpc = "options"
    /\ apc = "sleep"
    /\ kind = "ctl"
    /\ orig = 2
    /\ attempts[0] = 1
    /\ attempts[1] = 1
    /\ target = 1

\* C18 as stated  No-op request: when the observed value equals the target at the
\* time of the call, the set request is issued and, once it has returned, the
\* call has ended Confirmed on its first poll, without a poll-interval sleep.
C18_NoopConfirmsFirstPoll ==
    noop =>
        \/ apc = "set"
        \/ outcome = "Fault"
        \/ /\ apc = "idle"
           /\ outcome = "Confirmed"
           /\ polls = 1
           /\ ticks = 0

\* C18 as amended  When the observed value equals the target at the time of the
\* call the set request is still issued; the call ends Confirmed on its first
\* poll, without a poll-interval sleep, when the observed value equals the target
\* at the moment the set request returns.
C18_NoopConfirmsIfUnchanged ==
    [][/\ (noop' /\ ~noop) => apc' = "set"
       /\ (noop /\ apc = "set" /\ apc' # "set" /\ outcome' # "Fault"
              /\ Observed = target) =>
            /\ apc' = "idle"
            /\ outcome' = "Confirmed"
            /\ polls' = 1
            /\ ticks' = 0
      ]_vars

\* The first adjust_temperature timed out with the target temperature unchanged;
\* the second, for the captured target, has been confirmed on its first poll.
C18_NoopAfterTimeout ==
    /\ tpc = "temp2"
    /\ firstOutcome = "TimedOut"
    /\ noop
    /\ apc = "idle"
    /\ outcome = "Confirmed"
    /\ polls = 1
    /\ ticks = 0
    /\ targetTemp = savedTemp

\* C19  Sequential device sessions: the spas are taken one at a time in the order
\* discovery returned them; the only connection that can be open is the one of
\* the spa connect_and_listen is running for, and it is closed before the next
\* spa is taken, so at most one connection is open at any time.
C19_SequentialSessions ==
    /\ [](/\ Cardinality(open) <= 1
          /\ open \subseteq {devIdx}
          /\ devIdx \in 1..(nSpas + 1)
          /\ cpc \in {"idle", "try"} => open = {})
    /\ [][/\ devIdx' \in {devIdx, devIdx + 1}
          /\ devIdx' = devIdx + 1 => (cpc # "idle" /\ cpc' = "idle" /\ open' = {})
          /\ ~(open' \subseteq open) => (open = {} /\ open' = {devIdx} /\ devIdx' = devIdx)
         ]_vars

\* In discovery mode the third spa is connected and its controls are being swept;
\* the connections of the first two are closed.
C19_ThirdSpaAlone ==
    /\ ~hostGiven
    /\ nSpas = 3
    /\ devIdx = 3
    /\ open = {3}
    /\ tpc = "options"

\* C20  Bounded commands per control: in the sweep of a control with n options
\* that started in one of them, every state is the target of at most one set_state
\* request and only options are targets; the option loop issues at most n - 1
\* requests, none for the start state; with the restore, which is for the start
\* state and is issued once whatever its outcome, the sweep issues at most n.
C20_BoundedCommands ==
    (tpc \in {"options", "ctl_end"} /\ orig \in OptionSet(nOpt)) =>
        /\ \A o \in States : attempts[o] <= 1
        /\ \A o \in States \ OptionSet(nOpt) : attempts[o] = 0
        /\ Cardinality({o \in States \ {orig} : attempts[o] > 0}) <= nOpt - 1
        /\ Cardinality({o \in States : attempts[o] > 0}) <= nOpt
        /\ tpc = "options" => attempts[orig] = 0

\* A control with three options was sent three requests, the last of them the
\* restore, which timed out; the sweep of the control is finished.
C20_RestoreTimedOutOnce ==
    /\ SweepFinished
    /\ nOpt = 3
    /\ orig = 0
    /\ attempts[0] = 1 /\ attempts[1] = 1 /\ attempts[2] = 1
    /\ target = orig
    /\ outcome = "TimedOut"

====
